---- MODULE Spec2Model ----
(***************************************************************************)
(* FashionAnalyzer (src/code.py): one run() of the pipeline                *)
(*   load_data -> print_text_stats -> plot_all_charts -> completion log.   *)
(* The input file is a table of raw text cells; read_csv types each column *)
(* and fillna(0).drop_duplicates() cleans it.                              *)
(***************************************************************************)
EXTENDS Integers, Sequences, FiniteSets

VARIABLES file, df, pc, log, out, panels, shown, calls

vars == <<file, df, pc, log, out, panels, shown, calls>>

(* ------------------------------ bounds -------------------------------- *)

\* longest table (in rows) of the files that vary cell by cell
MaxRows == 3

(* ------------------------------ columns ------------------------------- *)

Expected ==
  {"Category", "Color", "Brand", "Price(USD)", "Style", "Season",
   "Customer_Rating", "Popularity_Score"}

(* --------------------------- cells and tokens -------------------------- *)

\* a parsed cell: missing (NaN), a number, or a string
NA == [k |-> "na", n |-> 0, s |-> ""]
Num(x) == [k |-> "num", n |-> x, s |-> ""]
Str(t) == [k |-> "str", n |-> 0, s |-> t]

\* raw text that read_csv reads as a missing value
NaTokens == {"", "NA"}

\* raw text that read_csv parses as a number, with its value
NumValue ==
  [t \in {"0", "4", "60", "80", "100"} |->
     CASE t = "0" -> 0
       [] t = "4" -> 4
       [] t = "60" -> 60
       [] t = "80" -> 80
       [] t = "100" -> 100]

IsMissing(tok) == tok \in NaTokens

IsNumTok(tok) == tok \in DOMAIN NumValue

\* lexicographic order of the text tokens that can be group keys
StrOrder == <<"0", "Coats">>

StrRank(t) == CHOOSE i \in 1..Len(StrOrder) : StrOrder[i] = t

(* ------------------------------- read_csv ------------------------------ *)

\* a column is numeric when every cell that is not missing parses as a number
NumericCol(f, c) ==
  \A i \in 1..Len(f.rows) : IsMissing(f.rows[i][c]) \/ IsNumTok(f.rows[i][c])

ParseCell(f, c, tok) ==
  IF IsMissing(tok) THEN NA
  ELSE IF NumericCol(f, c) THEN Num(NumValue[tok])
  ELSE Str(tok)

\* a line of the file with no text in it: in a file of one column, a row
\* whose cell is empty (with more columns the line holds the separators)
BlankLine(f, r) ==
  Cardinality(f.cols) = 1 /\ \A c \in f.cols : r[c] = ""

\* the lines read_csv parses: blank lines are skipped (skip_blank_lines is
\* left at its default, True)
DataLines(f) == SelectSeq(f.rows, LAMBDA r : ~BlankLine(f, r))

\* pd.read_csv on a file that exists and has a header. Text columns hold
\* Python strings (object dtype), so that fillna(0) can put the number 0
\* among them; the rows parsed get the index labels 0, 1, 2, ...
ReadCsv(f) ==
  LET lines == DataLines(f)
  IN [isNone |-> FALSE,
      cols |-> f.cols,
      index |-> [i \in 1..Len(lines) |-> i - 1],
      rows |-> [i \in 1..Len(lines) |->
                  [c \in f.cols |-> ParseCell(f, c, lines[i][c])]]]

(* ------------------------- fillna, drop_duplicates --------------------- *)

FillCell(cell) == IF cell.k = "na" THEN Num(0) ELSE cell

\* a fill that leaves the text columns alone: a plausible slip
FillNaNumericOnly(t) ==
  LET Text(c) == \E i \in 1..Len(t.rows) : t.rows[i][c].k = "str"
  IN [t EXCEPT !.rows = [i \in 1..Len(t.rows) |->
                           [c \in t.cols |->
                              IF Text(c) THEN t.rows[i][c]
                              ELSE FillCell(t.rows[i][c])]]]

\* DataFrame.fillna(0): every missing cell of every column becomes 0
FillNa(t) ==
  [t EXCEPT !.rows = [i \in 1..Len(t.rows) |->
                        [c \in t.cols |-> FillCell(t.rows[i][c])]]]

\* positions kept by drop_duplicates(keep="last"): a plausible slip
KeptLast(rows) ==
  {i \in 1..Len(rows) : \A j \in (i + 1)..Len(rows) : rows[j] # rows[i]}

\* positions kept by drop_duplicates(): the first row of each group of equals
Kept(rows) ==
  {i \in 1..Len(rows) : \A j \in 1..(i - 1) : rows[j] # rows[i]}

\* the i-th smallest element of a set of integers
RECURSIVE Nth(_, _)
Nth(S, i) ==
  LET m == CHOOSE x \in S : \A y \in S : x <= y
  IN IF i = 1 THEN m ELSE Nth(S \ {m}, i - 1)

\* DataFrame.drop_duplicates(): survivors keep their order and index labels
DropDuplicates(t) ==
  LET K == Kept(t.rows)
      n == Cardinality(K)
  IN [t EXCEPT !.rows = [i \in 1..n |-> t.rows[Nth(K, i)]],
               !.index = [i \in 1..n |-> t.index[Nth(K, i)]]]

\* the cleaning steps in the wrong order: a plausible slip
CleanDedupFirst(t) == FillNa(DropDuplicates(t))

\* line 42: self.df.fillna(0).drop_duplicates()
Clean(t) == DropDuplicates(FillNa(t))

(* ---------------------- groupby / median / sort ------------------------ *)

\* order of group keys after groupby (sorted keys): numbers, then strings
KeyLess(a, b) ==
  IF a.k # b.k THEN a.k = "num"
  ELSE IF a.k = "num" THEN a.n < b.n
  ELSE StrRank(a.s) < StrRank(b.s)

\* the distinct values of a set of cells as a sequence in groupby key order
RECURSIVE SortKeys(_)
SortKeys(K) ==
  IF K = {} THEN <<>>
  ELSE LET m == CHOOSE x \in K : \A y \in K \ {x} : KeyLess(x, y)
       IN <<m>> \o SortKeys(K \ {m})

\* insert x into an ascending sequence of integers
RECURSIVE InsertAsc(_, _)
InsertAsc(s, x) ==
  IF s = <<>> THEN <<x>>
  ELSE IF x < Head(s) THEN <<x>> \o s
  ELSE <<Head(s)>> \o InsertAsc(Tail(s), x)

RECURSIVE SortAsc(_)
SortAsc(s) ==
  IF s = <<>> THEN <<>> ELSE InsertAsc(SortAsc(Tail(s)), Head(s))

\* a median that takes the upper middle value of an even group: a plausible slip
UpperMedian2(vals) ==
  LET s == SortAsc(vals)
      n == Len(s)
  IN 2 * s[(n \div 2) + 1]

\* twice the median of a non-empty sequence of integers (twice, so that
\* the mean of the two middle values of an even group stays an integer)
Median2(vals) ==
  LET s == SortAsc(vals)
      n == Len(s)
  IN IF n % 2 = 1 THEN 2 * s[(n + 1) \div 2]
     ELSE s[n \div 2] + s[(n \div 2) + 1]

\* the Popularity_Score values of the rows of t whose Category is key
GroupValues(t, key) ==
  LET sel == SelectSeq(t.rows, LAMBDA r : r["Category"] = key)
  IN [i \in 1..Len(sel) |-> sel[i]["Popularity_Score"].n]

\* df.groupby('Category')['Popularity_Score'].median(): one entry per key
GroupMedians(t) ==
  LET keys == SortKeys({t.rows[i]["Category"] : i \in 1..Len(t.rows)})
  IN [i \in 1..Len(keys) |->
        [key |-> keys[i], median2 |-> Median2(GroupValues(t, keys[i]))]]

\* insert x into a descending series, after the entries that are not smaller
RECURSIVE InsertDesc(_, _)
InsertDesc(s, x) ==
  IF s = <<>> THEN <<x>>
  ELSE IF x.median2 > Head(s).median2 THEN <<x>> \o s
  ELSE <<Head(s)>> \o InsertDesc(Tail(s), x)

\* Series.sort_values(ascending=False)
RECURSIVE SortValues(_)
SortValues(s) ==
  IF s = <<>> THEN <<>>
  ELSE InsertDesc(SortValues([i \in 1..(Len(s) - 1) |-> s[i]]), s[Len(s)])

\* the arrangements of a series: sort_values uses quicksort, which is not
\* stable, so entries with equal medians may come out in any order
Arrangements(s) ==
  {[i \in 1..Len(s) |-> s[p[i]]] :
     p \in {q \in [1..Len(s) -> 1..Len(s)] :
              \A i, j \in 1..Len(s) : i # j => q[i] # q[j]}}

(* ------------------------------ input files --------------------------- *)

\* the record of section 8's scenario, as the raw text of one line of the file
ScenarioRow(score) ==
  [c \in Expected |->
     CASE c = "Category" -> "Coats"
       [] c = "Color" -> "Black"
       [] c = "Brand" -> "A"
       [] c = "Price(USD)" -> "100"
       [] c = "Style" -> "Casual"
       [] c = "Season" -> "Winter"
       [] c = "Customer_Rating" -> "4"
       [] c = "Popularity_Score" -> score]

\* full-width tables: the scenario (a row, its duplicate, a third row), and
\* the same with a missing score
SampleTables ==
  {<<ScenarioRow("80"), ScenarioRow("80"), ScenarioRow("60")>>,
   <<ScenarioRow("80"), ScenarioRow(""), ScenarioRow("60")>>}

Restrict(rows, cols) ==
  [i \in 1..Len(rows) |-> [c \in cols |-> rows[i][c]]]

NoFile == [exists |-> FALSE, cols |-> {}, rows |-> <<>>]

\* files with any subset of the expected columns (none at all: an empty file)
ColumnFiles ==
  {[exists |-> TRUE, cols |-> cols,
    rows |-> IF cols = {} THEN <<>> ELSE Restrict(rows, cols)] :
     cols \in SUBSET Expected, rows \in SampleTables}

CategoryTokens == {"", "0", "Coats"}

ScoreTokens == {"", "0", "60", "80"}

CellRows ==
  {[c \in {"Category", "Popularity_Score"} |->
      IF c = "Category" THEN cat ELSE score] :
     cat \in CategoryTokens, score \in ScoreTokens}

RECURSIVE SeqsUpTo(_, _)
SeqsUpTo(S, n) ==
  IF n = 0 THEN {<<>>}
  ELSE LET shorter == SeqsUpTo(S, n - 1)
       IN shorter \cup
          {Append(q, x) : q \in {r \in shorter : Len(r) = n - 1}, x \in S}

\* files with the two columns of the ranked report and any cells in them
CellFiles ==
  {[exists |-> TRUE, cols |-> {"Category", "Popularity_Score"}, rows |-> rows] :
     rows \in SeqsUpTo(CellRows, MaxRows)}

Files == {NoFile} \cup ColumnFiles \cup CellFiles

(* ------------------------------- the state ----------------------------- *)

\* self.df = None
NoneDf == [isNone |-> TRUE, cols |-> {}, index |-> <<>>, rows |-> <<>>]

Panels == {"A", "B", "C", "D"}

\* the columns each panel reads
PanelColumns(p) ==
  CASE p = "A" -> {"Color"}
    [] p = "B" -> {"Brand", "Price(USD)"}
    [] p = "C" -> {"Style", "Popularity_Score"}
    [] p = "D" -> {"Season", "Customer_Rating"}

Entry(level, msg) == [level |-> level, msg |-> msg]

Printed(what, series) == [what |-> what, series |-> series]

Init ==
  /\ file \in Files
  /\ df = NoneDf
  /\ pc = "run"
  /\ log = <<>>
  /\ out = <<>>
  /\ panels = [p \in Panels |-> "blank"]
  /\ shown = FALSE
  /\ calls = <<>>

(* ------------------------------- load_data ----------------------------- *)

\* read_csv raises FileNotFoundError
NotFound(f) == ~f.exists

\* read_csv raises another error: a file with no columns to parse
Unreadable(f) == f.exists /\ f.cols = {}

\* load_data() and the test of line 188: run() goes on at `failed` when
\* load_data returns False
LoadDataThen(failed) ==
  /\ pc = "run"
  /\ calls' = Append(calls, "load_data")
  /\ IF NotFound(file)
       THEN /\ log' = Append(log, Entry("ERROR", "not found"))
            /\ df' = df
            /\ pc' = failed
     ELSE IF Unreadable(file)
       THEN /\ log' = Append(log, Entry("ERROR", "load error"))
            /\ df' = df
            /\ pc' = failed
     ELSE /\ df' = Clean(ReadCsv(file))
          /\ log' = Append(log, Entry("INFO", "loaded"))
          /\ pc' = "loaded"
  /\ UNCHANGED <<file, out, panels, shown>>

\* run() going on without testing what load_data returned: a plausible slip
LoadDataUnchecked == LoadDataThen("loaded")

\* lines 188 and 28-55
LoadData == LoadDataThen("load_failed")

\* the else branch of run(), line 198
Abort ==
  /\ pc = "load_failed"
  /\ log' = Append(log, Entry("ERROR", "analysis impossible"))
  /\ pc' = "done"
  /\ UNCHANGED <<file, df, out, panels, shown, calls>>

(* ---------------------------- print_text_stats ------------------------- *)

\* line 71: 'Popularity_Score' in self.df.columns
HasScore(t) == "Popularity_Score" \in t.cols

\* line 77: groupby('Category') raises KeyError when the column is absent
GroupByRaises(t) == "Category" \notin t.cols

\* the series lines 77-79 can print
RankedSeries(t) == {SortValues(a) : a \in Arrangements(GroupMedians(t))}

\* print_text_stats() without the test of line 71: a plausible slip. The
\* lookup of an absent 'Popularity_Score' raises KeyError like that of an
\* absent 'Category'.
PrintTextStatsUnguarded ==
  /\ pc = "loaded"
  /\ calls' = Append(calls, "print_text_stats")
  /\ IF ~HasScore(df) \/ GroupByRaises(df)
       THEN /\ out' = out \o <<Printed("describe", <<>>),
                               Printed("median heading", <<>>)>>
            /\ pc' = "crashed"
     ELSE /\ \E series \in RankedSeries(df) :
               out' = out \o <<Printed("describe", <<>>),
                               Printed("median heading", <<>>),
                               Printed("ranked", series)>>
          /\ pc' = "reported"
  /\ UNCHANGED <<file, df, log, panels, shown>>

\* print_text_stats(), called at line 190. The statistics table of line 67
\* is printed first; an exception raised at line 77 is caught nowhere and
\* ends run() and the process.
PrintTextStats ==
  /\ pc = "loaded"
  /\ calls' = Append(calls, "print_text_stats")
  /\ IF ~HasScore(df)
       THEN /\ out' = Append(out, Printed("describe", <<>>))
            /\ pc' = "reported"
     ELSE IF GroupByRaises(df)
       THEN /\ out' = out \o <<Printed("describe", <<>>),
                               Printed("median heading", <<>>)>>
            /\ pc' = "crashed"
     ELSE /\ \E series \in RankedSeries(df) :
               out' = out \o <<Printed("describe", <<>>),
                               Printed("median heading", <<>>),
                               Printed("ranked", series)>>
          /\ pc' = "reported"
  /\ UNCHANGED <<file, df, log, panels, shown>>

(* ----------------------------- plot_all_charts ------------------------- *)

\* the panel's plotting call raises when a column it reads is absent
\* (KeyError from df[...] and groupby, ValueError from seaborn); every
\* table here that has a panel's columns has rows of the right type in them
PanelRaises(t, p) == ~(PanelColumns(p) \subseteq t.cols)

\* lines 88-95: theme, figure with four empty axes, title
Subplots ==
  /\ pc = "reported"
  /\ calls' = Append(calls, "plot_all_charts")
  /\ pc' = "panel A"
  /\ UNCHANGED <<file, df, log, out, panels, shown>>

\* the four panels under one try/except, so that the first panel that
\* raises ends the drawing: a plausible slip
PanelOneGuard(p, msg, next) ==
  /\ pc = "panel " \o p
  /\ calls' = Append(calls, "panel " \o p)
  /\ IF PanelRaises(df, p)
       THEN /\ log' = Append(log, Entry("WARNING", msg))
            /\ panels' = panels
            /\ pc' = "show"
       ELSE /\ panels' = [panels EXCEPT ![p] = "rendered"]
            /\ log' = log
            /\ pc' = next
  /\ UNCHANGED <<file, df, out, shown>>

\* one try/except block of plot_all_charts
Panel(p, msg, next) ==
  /\ pc = "panel " \o p
  /\ calls' = Append(calls, "panel " \o p)
  /\ IF PanelRaises(df, p)
       THEN /\ log' = Append(log, Entry("WARNING", msg))
            /\ panels' = panels
       ELSE /\ panels' = [panels EXCEPT ![p] = "rendered"]
            /\ log' = log
  /\ pc' = next
  /\ UNCHANGED <<file, df, out, shown>>

PanelA == Panel("A", "colors", "panel B")

PanelB == Panel("B", "prices", "panel C")

PanelC == Panel("C", "popularity", "panel D")

PanelD == Panel("D", "rating", "show")

\* lines 177-180: tight_layout and show
Show ==
  /\ pc = "show"
  /\ calls' = Append(calls, "show")
  /\ shown' = TRUE
  /\ pc' = "plotted"
  /\ UNCHANGED <<file, df, log, out, panels>>

\* the completion log only when every panel was drawn: a plausible slip
CompleteIfAllRendered ==
  /\ pc = "plotted"
  /\ log' = IF \A p \in Panels : panels[p] = "rendered"
              THEN Append(log, Entry("INFO", "complete"))
              ELSE log
  /\ pc' = "done"
  /\ UNCHANGED <<file, df, out, panels, shown, calls>>

\* line 196
Complete ==
  /\ pc = "plotted"
  /\ log' = Append(log, Entry("INFO", "complete"))
  /\ pc' = "done"
  /\ UNCHANGED <<file, df, out, panels, shown, calls>>

Next ==
  \/ LoadData
  \/ Abort
  \/ PrintTextStats
  \/ Subplots
  \/ PanelA
  \/ PanelB
  \/ PanelC
  \/ PanelD
  \/ Show
  \/ Complete

Spec == Init /\ [][Next]_vars

(* ------------------------------ properties ---------------------------- *)

Range(q) == {q[i] : i \in DOMAIN q}

Count(q, x) == Cardinality({i \in DOMAIN q : q[i] = x})

Errors == {i \in DOMAIN log : log[i].level = "ERROR"}

\* the warning each panel logs when it fails
PanelMsg(p) ==
  CASE p = "A" -> "colors"
    [] p = "B" -> "prices"
    [] p = "C" -> "popularity"
    [] p = "D" -> "rating"

Warned(p) == Entry("WARNING", PanelMsg(p)) \in Range(log)

\* the steps of a run that loads and reports, in the order of the code
FullRun ==
  <<"load_data", "print_text_stats", "plot_all_charts",
    "panel A", "panel B", "panel C", "panel D", "show">>

IsPrefix(a, b) == Len(a) <= Len(b) /\ \A i \in 1..Len(a) : a[i] = b[i]

\* C1: when the file does not exist or cannot be read, load_data logs an
\* error, run() logs its own error, and neither print_text_stats nor
\* plot_all_charts (nor anything they do) is executed in that run.
C1_LoadFailureSkipsReportAndCharts ==
  ((NotFound(file) \/ Unreadable(file)) /\ pc # "run") =>
    /\ df.isNone
    /\ calls = <<"load_data">>
    /\ out = <<>>
    /\ \A p \in Panels : panels[p] = "blank"
    /\ ~shown
    /\ log # <<>>
    /\ \A i \in DOMAIN log : log[i].level = "ERROR"
    /\ pc \in {"load_failed", "done"}
    /\ (pc = "done" => log[Len(log)] = Entry("ERROR", "analysis impossible"))

C1_Witness ==
  /\ NotFound(file)
  /\ pc = "done"
  /\ Len(log) = 2

\* C2: once the figure is shown, every panel has been attempted exactly
\* once; a panel whose columns are absent is blank and has logged its
\* warning, and every other panel is rendered, whichever panels failed.
C2_PanelFailuresAreIsolated ==
  shown =>
    \A p \in Panels :
      /\ Count(calls, "panel " \o p) = 1
      /\ PanelRaises(df, p) => (panels[p] = "blank" /\ Warned(p))
      /\ ~PanelRaises(df, p) => (panels[p] = "rendered" /\ ~Warned(p))

C2_Witness ==
  /\ shown
  /\ "Color" \notin df.cols
  /\ Warned("A")
  /\ panels = [p \in Panels |-> IF p = "A" THEN "blank" ELSE "rendered"]

\* a run has ended: run() returned, or an exception left it
Ended == pc \in {"done", "crashed"}

\* C3: a run that loaded its data goes on to plot_all_charts even when
\* print_text_stats raised.
C3_ReporterFailureStillPlots ==
  (Ended /\ ~df.isNone) => "plot_all_charts" \in Range(calls)

\* C4: whatever expected columns the file lacks, the run does not end with
\* an uncaught exception.
C4_MissingColumnsNeverCrash ==
  pc # "crashed"

\* the table has a missing-value marker
HasMissing(t) ==
  \E i \in 1..Len(t.rows) : \E c \in t.cols : t.rows[i][c].k = "na"

\* the table has two identical rows
HasDuplicates(t) ==
  \E i, j \in 1..Len(t.rows) : i # j /\ t.rows[i] = t.rows[j]

\* rows i and j of the file differ only in cells that are missing in one
\* and the text 0 in the other, and do differ in such a cell
MissingVersusZero(f, i, j) ==
  /\ \A c \in f.cols :
       \/ f.rows[i][c] = f.rows[j][c]
       \/ (IsMissing(f.rows[i][c]) /\ f.rows[j][c] = "0")
       \/ (IsMissing(f.rows[j][c]) /\ f.rows[i][c] = "0")
  /\ \E c \in f.cols : f.rows[i][c] # f.rows[j][c]

\* C5: the Dataset held after a successful load_data has no missing-value
\* marker in any column and no two identical rows.
C5_CleanedHasNoMissingNoDuplicates ==
  ~df.isNone => (~HasMissing(df) /\ ~HasDuplicates(df))

\* a file whose two rows differ only in a missing cell versus a zero cell of
\* a numeric column has been loaded, and one row is left
C5_Witness ==
  /\ ~df.isNone
  /\ Len(ReadCsv(file).rows) = 2
  /\ MissingVersusZero(file, 1, 2)
  /\ Len(df.rows) = 1

\* C6: cleaning the cleaned Dataset again yields the same table: the same
\* rows in the same order under the same index labels.
C6_CleanIsIdempotent ==
  ~df.isNone => Clean(df) = df

\* the first cleaning both filled a cell and dropped a row
C6_Witness ==
  /\ ~df.isNone
  /\ HasMissing(ReadCsv(file))
  /\ Len(df.rows) < Len(ReadCsv(file).rows)
  /\ Len(df.rows) > 1

\* C7: of every group of identical rows (after the fill) exactly the first
\* occurrence survives, and the survivors are in the order of the file.
C7_FirstOccurrenceKeptInOrder ==
  ~df.isNone =>
    LET src == FillNa(ReadCsv(file))
        n == Len(src.rows)
        labels == Range(df.index)
        First(j) == CHOOSE q \in 1..n :
                      /\ src.rows[q] = src.rows[j]
                      /\ \A r \in 1..(q - 1) : src.rows[r] # src.rows[j]
    IN /\ Len(df.index) = Len(df.rows)
       /\ \A i \in 1..Len(df.rows) :
            /\ df.index[i] + 1 \in 1..n
            /\ df.rows[i] = src.rows[df.index[i] + 1]
       /\ \A i, j \in 1..Len(df.index) : i < j => df.index[i] < df.index[j]
       /\ \A j \in 1..n : ((j - 1) \in labels) = (First(j) = j)

\* rows X, Y, X: the second X is dropped, X stays ahead of Y
C7_Witness ==
  /\ ~df.isNone
  /\ Len(ReadCsv(file).rows) = 3
  /\ file.rows[1] = file.rows[3]
  /\ file.rows[1] # file.rows[2]
  /\ df.index = <<0, 1>>

\* the ranked series that print_text_stats printed, if it printed one
Ranked == {out[i].series : i \in {j \in DOMAIN out : out[j].what = "ranked"}}

\* m2 is twice the median of the values v: the sum of the lower and the
\* upper middle value, each fixed by how many values lie below it
IsMedian2(v, m2) ==
  LET n == Len(v)
      Below(x) == Cardinality({k \in 1..n : v[k] < x})
      UpTo(x) == Cardinality({k \in 1..n : v[k] <= x})
      At(x, pos) == Below(x) < pos /\ pos <= UpTo(x)
  IN \E a, b \in Range(v) :
       /\ At(a, (n + 1) \div 2)
       /\ At(b, (n \div 2) + 1)
       /\ m2 = a + b

\* C8: the ranked report has one line per Category of the cleaned table,
\* each with the median of the Popularity_Score of the cleaned rows of that
\* Category (a filled cell counting as 0), in descending order of median;
\* the scenario of a row, its duplicate and a third row gives two rows and
\* Coats with median 70.
C8_RankedMedianOverCleanedTable ==
  \A series \in Ranked :
    /\ {series[i].key : i \in DOMAIN series} =
         {df.rows[i]["Category"] : i \in 1..Len(df.rows)}
    /\ \A i, j \in DOMAIN series : i # j => series[i].key # series[j].key
    /\ \A i \in DOMAIN series :
         IsMedian2(GroupValues(df, series[i].key), series[i].median2)
    /\ \A i, j \in DOMAIN series :
         i < j => series[i].median2 >= series[j].median2
    /\ (file.rows = <<ScenarioRow("80"), ScenarioRow("80"), ScenarioRow("60")>>
          => /\ Len(df.rows) = 2
             /\ series = <<[key |-> Str("Coats"), median2 |-> 2 * 70]>>)

C8_Witness ==
  /\ file.rows = <<ScenarioRow("80"), ScenarioRow("80"), ScenarioRow("60")>>
  /\ Len(df.rows) = 2
  /\ <<[key |-> Str("Coats"), median2 |-> 140]>> \in Ranked

\* C9: without a Popularity_Score column print_text_stats prints the
\* statistics table only, raises nothing and logs no error, whatever the
\* other columns are.
C9_NoScoreColumnSkipsRanking ==
  (~df.isNone /\ ~HasScore(df) /\ "print_text_stats" \in Range(calls)) =>
    /\ pc # "crashed"
    /\ out = <<Printed("describe", <<>>)>>
    /\ Errors = {}

\* the Category column is absent as well
C9_Witness ==
  /\ ~df.isNone
  /\ df.cols = {"Color"}
  /\ pc = "reported"
  /\ out = <<Printed("describe", <<>>)>>

\* the steps of run() that follow print_text_stats
AfterReport ==
  Subplots \/ PanelA \/ PanelB \/ PanelC \/ PanelD \/ Show \/ Complete

\* C10: in a run that loads and whose report does not raise, the steps
\* happen once each in the order load, report, charts (four panels, then
\* the figure), completion log; the run goes on to its end however many
\* panels fail, and ends with the completion log.
C10_SequentialRunCompletes ==
  (~df.isNone /\ pc # "crashed") =>
    /\ IsPrefix(calls, FullRun)
    /\ shown => \A p \in Panels : ("panel " \o p) \in Range(calls)
    /\ Count(log, Entry("INFO", "complete")) = (IF pc = "done" THEN 1 ELSE 0)
    /\ pc = "done" =>
         /\ calls = FullRun
         /\ shown
         /\ log[Len(log)] = Entry("INFO", "complete")
    /\ pc \notin {"loaded", "done"} => ENABLED AfterReport

\* all four panels failed and the completion log was still written
C10_Witness ==
  /\ pc = "done"
  /\ calls = FullRun
  /\ \A p \in Panels : panels[p] = "blank" /\ Warned(p)
  /\ log[Len(log)] = Entry("INFO", "complete")

====
